---- MODULE Spec2Model ----
(***************************************************************************)
(* A model of transfer_data (src/app.py): the migration of the seven       *)
(* legacy tables into the destination store inside one transaction.        *)
(*                                                                         *)
(* Python values are records [t, n, s]: t is the Python type, n the number *)
(* a numeric value holds (floats in tenths, dates as yyyymmdd), s the      *)
(* characters of a string, one per element.                                *)
(***************************************************************************)
EXTENDS Integers, Sequences, FiniteSets, TLC

\* Bounds of the model: rows per legacy table, and calls of transfer_data.
MaxRows == 2
MaxRuns == 2

TableOrder ==
    << "staff", "engagement", "proposal", "non_billable",
       "hours_log", "leave_record", "utilization" >>

Tables == { TableOrder[i] : i \in 1..Len(TableOrder) }

---------------------------------------------------------------------------
\* Python values

I(k) == [t |-> "int", n |-> k, s |-> << >>]
S(cs) == [t |-> "str", n |-> 0, s |-> cs]
None == [t |-> "none", n |-> 0, s |-> << >>]
Fl(tenths) == [t |-> "float", n |-> tenths, s |-> << >>]
Bo(b) == [t |-> "bool", n |-> IF b THEN 1 ELSE 0, s |-> << >>]
Dt(y, m, d) == [t |-> "date", n |-> y * 10000 + m * 100 + d, s |-> << >>]
\* an exception raised while the value was computed
Raise(e) == [t |-> "raise", n |-> 0, s |-> << e >>]

DigitVal ==
    "0" :> 0 @@ "1" :> 1 @@ "2" :> 2 @@ "3" :> 3 @@ "4" :> 4 @@
    "5" :> 5 @@ "6" :> 6 @@ "7" :> 7 @@ "8" :> 8 @@ "9" :> 9

IsDigit(c) == c \in DOMAIN DigitVal
NonZeroDigit(c) == IsDigit(c) /\ c # "0"
AllDigits(cs) == \A i \in 1..Len(cs) : IsDigit(cs[i])

\* the number a field of digits denotes (a leading space counts as nothing)
Num(cs) ==
    LET F[i \in 0..Len(cs)] ==
            IF i = 0 THEN 0
            ELSE IF IsDigit(cs[i]) THEN 10 * F[i - 1] + DigitVal[cs[i]] ELSE F[i - 1]
    IN  F[Len(cs)]

---------------------------------------------------------------------------
\* datetime.strptime(date_str, '%Y-%m-%d').date()

\* %Y is \d\d\d\d
MatchY(f) == Len(f) = 4 /\ AllDigits(f)

\* %m is 1[0-2]|0[1-9]|[1-9]
MatchM(f) ==
    \/ Len(f) = 2 /\ f[1] = "1" /\ f[2] \in {"0", "1", "2"}
    \/ Len(f) = 2 /\ f[1] = "0" /\ NonZeroDigit(f[2])
    \/ Len(f) = 1 /\ NonZeroDigit(f[1])

\* %d is 3[0-1]|[1-2]\d|0[1-9]|[1-9]| [1-9]
MatchD(f) ==
    \/ Len(f) = 2 /\ f[1] = "3" /\ f[2] \in {"0", "1"}
    \/ Len(f) = 2 /\ f[1] \in {"1", "2"} /\ IsDigit(f[2])
    \/ Len(f) = 2 /\ f[1] \in {"0", " "} /\ NonZeroDigit(f[2])
    \/ Len(f) = 1 /\ NonZeroDigit(f[1])

IsLeap(y) == (y % 4 = 0 /\ y % 100 # 0) \/ y % 400 = 0

DaysInMonth(y, m) ==
    IF m = 2 THEN (IF IsLeap(y) THEN 29 ELSE 28)
    ELSE IF m \in {4, 6, 9, 11} THEN 30 ELSE 31

Hyphens(cs) == { i \in 1..Len(cs) : cs[i] = "-" }

\* the three fields the two hyphens of the format separate
Fields(cs) ==
    LET i == CHOOSE h \in Hyphens(cs) : \A g \in Hyphens(cs) : h <= g
        j == CHOOSE h \in Hyphens(cs) : \A g \in Hyphens(cs) : g <= h
    IN  << SubSeq(cs, 1, i - 1), SubSeq(cs, i + 1, j - 1), SubSeq(cs, j + 1, Len(cs)) >>

\* datetime.date(year, month, day): the date must exist
MakeDate(y, m, d) ==
    IF y < 1 \/ d > DaysInMonth(y, m) THEN Raise("ValueError") ELSE Dt(y, m, d)

\* The whole string must match year-month-day, and the date must exist.
Strptime(cs) ==
    IF Cardinality(Hyphens(cs)) # 2 THEN Raise("ValueError")
    ELSE CHOOSE r \in
            { IF MatchY(f[1]) /\ MatchM(f[2]) /\ MatchD(f[3])
              THEN MakeDate(Num(f[1]), Num(f[2]), Num(f[3]))
              ELSE Raise("ValueError") : f \in {Fields(cs)} } : TRUE

\* A faulty variant of convert_date: the fields are read but the date is not validated.
convert_date_unchecked(date_str) ==
    IF date_str.t # "str" THEN date_str
    ELSE IF Cardinality(Hyphens(date_str.s)) # 2 THEN Raise("ValueError")
    ELSE CHOOSE r \in
            { IF MatchY(f[1]) /\ MatchM(f[2]) /\ MatchD(f[3])
              THEN Dt(Num(f[1]), Num(f[2]), Num(f[3]))
              ELSE Raise("ValueError") : f \in {Fields(date_str.s)} } : TRUE

convert_date(date_str) ==
    IF date_str.t = "str" THEN Strptime(date_str.s) ELSE date_str

---------------------------------------------------------------------------
\* float(x) and bool(x)

\* float of a string: digits with at most one '.', and (in this model, where a
\* float is kept in tenths) at most one digit after it; anything else here is
\* text float() rejects.
ParseFloat(cs) ==
    LET dots == { i \in 1..Len(cs) : cs[i] = "." }
    IN  IF dots = {} THEN
            (IF Len(cs) >= 1 /\ AllDigits(cs) THEN Fl(10 * Num(cs))
             ELSE Raise("ValueError"))
        ELSE IF Cardinality(dots) > 1 THEN Raise("ValueError")
        ELSE LET p == CHOOSE i \in dots : TRUE
                 ip == SubSeq(cs, 1, p - 1)
                 fp == SubSeq(cs, p + 1, Len(cs))
             IN  IF AllDigits(ip) /\ AllDigits(fp) /\ Len(fp) <= 1
                    /\ Len(ip) + Len(fp) >= 1
                 THEN Fl(10 * Num(ip) + Num(fp))
                 ELSE Raise("ValueError")

PyFloat(v) ==
    CASE v.t = "int" -> Fl(10 * v.n)
      [] v.t = "float" -> v
      [] v.t = "bool" -> Fl(10 * v.n)
      [] v.t = "str" -> ParseFloat(v.s)
      [] OTHER -> Raise("TypeError")

PyBool(v) ==
    CASE v.t = "str" -> Bo(v.s # << >>)
      [] v.t = "none" -> Bo(FALSE)
      [] OTHER -> Bo(v.n # 0)

---------------------------------------------------------------------------
\* The legacy source: sample rows, "SELECT *" tuples in the legacy column order

\* 'YYYY-MM-DD' text, one character per element
Ymd(y1, y2, y3, y4, m1, m2, d1, d2) == S(<< y1, y2, y3, y4, "-", m1, m2, "-", d1, d2 >>)

\* staff: id, name, email, leave_days_remaining, is_team_leader, receive_notifications
sA == << I(1), S(<<"A">>), S(<<"a">>), I(5), I(1), I(0) >>
sB == << I(2), S(<<"B">>), S(<<"b">>), S(<<"2", ".", "5">>), S(<<"0">>), None >>
\* the email of sA again
sC == << I(3), S(<<"C">>), S(<<"a">>), I(0), I(0), I(1) >>
\* leave_days_remaining is not a number
sD == << I(4), S(<<"D">>), S(<<"d">>), S(<<"x">>), I(0), I(1) >>

\* engagement and proposal: id, name, team_leader_id, status
e1 == << I(1), S(<<"E">>), I(1), S(<<"o">>) >>
\* a team leader no staff row has
e2 == << I(2), S(<<"F">>), I(9), S(<<"o">>) >>
p1 == << I(1), S(<<"P">>), I(2), S(<<"o">>) >>
p2 == << I(2), S(<<"Q">>), None, S(<<"c">>) >>

\* non_billable: id, name
n1 == << I(1), S(<<"N">>) >>
\* the id of n1 again
n2 == << I(1), S(<<"M">>) >>

\* hours_log: id, staff_id, category, item_id, hours, date
h1 == << I(1), I(1), S(<<"e">>), I(1), S(<<"7", ".", "5">>), Ymd("2","0","2","4","0","2","2","9") >>
\* 30 February
h2 == << I(2), I(2), S(<<"p">>), I(1), I(8), Ymd("2","0","2","4","0","2","3","0") >>
\* month and day without their leading zero
h3 == << I(3), I(1), S(<<"n">>), I(1), I(4), S(<<"2","0","2","4","-","2","-","3">>) >>

\* leave_record: id, staff_id, date
l1 == << I(1), I(1), Ymd("2","0","2","4","0","3","0","1") >>
\* the staff and date of l1 again
l2 == << I(2), I(1), Ymd("2","0","2","4","0","3","0","1") >>
\* 29 February of a year that is not a leap year
l3 == << I(3), I(2), Ymd("2","0","2","3","0","2","2","9") >>

\* utilization: id, staff_id, week_start, and the four percentages
u1 == << I(1), I(1), Ymd("2","0","2","4","0","1","0","1"), I(1), S(<<"0", ".", "5">>), I(0), I(0) >>
\* month 13
u2 == << I(2), I(2), Ymd("2","0","2","4","1","3","0","1"), I(0), I(0), I(0), I(0) >>
\* week_start stored as an integer, not as text
u3 == << I(3), I(2), I(20240101), I(0), I(0), I(0), I(0) >>

Candidates(t) ==
    CASE t = "staff" -> << sA, sB, sC, sD >>
      [] t = "engagement" -> << e1, e2 >>
      [] t = "proposal" -> << p1, p2 >>
      [] t = "non_billable" -> << n1, n2 >>
      [] t = "hours_log" -> << h1, h2, h3 >>
      [] t = "leave_record" -> << l1, l2, l3 >>
      [] t = "utilization" -> << u1, u2, u3 >>

\* the rows of c at the positions in P, in c's order
Pick(c, P) ==
    LET F[i \in 0..Len(c)] ==
            IF i = 0 THEN << >>
            ELSE IF i \in P THEN Append(F[i - 1], c[i]) ELSE F[i - 1]
    IN  F[Len(c)]

\* what a legacy table can hold: it is missing, or it holds up to MaxRows of
\* its sample rows
TableChoices(t) ==
    { [exists |-> FALSE, rows |-> << >>] } \cup
    { [exists |-> TRUE, rows |-> Pick(Candidates(t), P)] :
        P \in { Q \in SUBSET (1..Len(Candidates(t))) : Cardinality(Q) <= MaxRows } }

\* a well-formed legacy database
Baseline ==
    [t \in Tables |->
        [exists |-> TRUE,
         rows |-> CASE t = "staff" -> << sA, sB >>
                    [] t = "engagement" -> << e1 >>
                    [] t = "proposal" -> << p1 >>
                    [] t = "non_billable" -> << n1 >>
                    [] t = "hours_log" -> << h1 >>
                    [] t = "leave_record" -> << l1 >>
                    [] t = "utilization" -> << u1 >>]]

NoTables == [t \in Tables |-> [exists |-> FALSE, rows |-> << >>]]

\* the legacy database of an earlier migration, whose rows the destination
\* may still hold
OldLegacy ==
    [t \in Tables |->
        [exists |-> TRUE,
         rows |-> CASE t = "staff" -> << << I(7), S(<<"O">>), S(<<"o">>), I(3), I(0), I(1) >> >>
                    [] t = "non_billable" -> << << I(7), S(<<"K">>) >> >>
                    [] t = "hours_log" ->
                        << << I(7), I(7), S(<<"e">>), I(1), I(2), Ymd("2","0","2","3","1","2","3","1") >> >>
                    [] t = "leave_record" -> << << I(7), I(7), Ymd("2","0","2","3","1","2","2","4") >> >>
                    [] t = "utilization" ->
                        << << I(7), I(7), Ymd("2","0","2","3","1","2","2","5"), I(1), I(1), I(1), I(1) >> >>
                    [] OTHER -> << >>]]

\* What old_db_path can name: nothing, a directory, a 0-byte file (SQLite reads
\* it as a database with no tables), or a database that differs from Baseline
\* in at most one table.
Sources ==
    { [kind |-> "absent", tables |-> NoTables],
      [kind |-> "directory", tables |-> NoTables],
      [kind |-> "file", tables |-> NoTables] } \cup
    UNION { { [kind |-> "file", tables |-> [Baseline EXCEPT ![t] = c]] :
                c \in TableChoices(t) } : t \in Tables }

---------------------------------------------------------------------------
\* The transformer: one destination object per legacy row

\* fake_description(): the fixed placeholder text
fake_description == S(<< "sample" >>)

\* random.randint(1, 365): the two ends of the range stand for its values
FakeOffsets == {1, 365}

\* fake_date(): today's date plus k days (a date, kept relative to today)
fake_date(k) == [t |-> "date", n |-> k, s |-> << "today+" >>]

\* A faulty variant of Staff: the two flags are copied, not coerced.
StaffRaw(row) ==
    [id |-> row[1], name |-> row[2], email |-> row[3],
     leave_days_remaining |-> PyFloat(row[4]),
     is_team_leader |-> row[5], receive_notifications |-> row[6]]

Staff(row) ==
    [id |-> row[1], name |-> row[2], email |-> row[3],
     leave_days_remaining |-> PyFloat(row[4]),
     is_team_leader |-> PyBool(row[5]),
     receive_notifications |-> PyBool(row[6])]

Engagement(row, sd, ed) ==
    [id |-> row[1], name |-> row[2], team_leader_id |-> row[3], status |-> row[4],
     description |-> fake_description,
     start_date |-> fake_date(sd), end_date |-> fake_date(ed)]

Proposal(row, dd) ==
    [id |-> row[1], name |-> row[2], team_leader_id |-> row[3], status |-> row[4],
     description |-> fake_description, due_date |-> fake_date(dd)]

NonBillable(row) == [id |-> row[1], name |-> row[2]]

HoursLog(row) ==
    [id |-> row[1], staff_id |-> row[2], category |-> row[3], item_id |-> row[4],
     hours |-> PyFloat(row[5]), date |-> convert_date(row[6])]

LeaveRecord(row) ==
    [id |-> row[1], staff_id |-> row[2], date |-> convert_date(row[3])]

Utilization(row) ==
    [id |-> row[1], staff_id |-> row[2], week_start |-> convert_date(row[3]),
     client_utilization_year_to_date |-> PyFloat(row[4]),
     client_utilization_month_to_date |-> PyFloat(row[5]),
     resource_utilization_year_to_date |-> PyFloat(row[6]),
     resource_utilization_month_to_date |-> PyFloat(row[7])]

\* building the object raised (float() or strptime() did)
Raised(obj) == \E o \in {obj} : \E f \in DOMAIN o : o[f].t = "raise"
AnyRaised(objs) == \E i \in 1..Len(objs) : Raised(objs[i])

---------------------------------------------------------------------------
\* The destination store: SQLite behind the SQLAlchemy session

NoRows == [t \in Tables |-> {}]
NoObjects == [t \in Tables |-> << >>]

\* columns declared nullable=False (a primary key aside)
NotNullCols(t) ==
    CASE t = "staff" -> {"name", "email"}
      [] t = "engagement" -> {"name", "status"}
      [] t = "proposal" -> {"name", "status"}
      [] t = "non_billable" -> {"name"}
      [] t = "hours_log" -> {"category", "item_id", "hours", "date"}
      [] t = "leave_record" -> {"date"}
      [] t = "utilization" -> {"week_start"}

\* columns declared db.Date: the SQLite dialect binds only date objects and None
DateCols(t) ==
    CASE t = "engagement" -> {"start_date", "end_date"}
      [] t = "proposal" -> {"due_date"}
      [] t = "hours_log" -> {"date"}
      [] t = "leave_record" -> {"date"}
      [] t = "utilization" -> {"week_start"}
      [] OTHER -> {}

\* unique=True and UniqueConstraint: the sets of columns no two rows may share
\* (a NULL is distinct from every value)
UniqueCols(t) ==
    CASE t = "staff" -> {{"email"}}
      [] t = "leave_record" -> {{"staff_id", "date"}}
      [] OTHER -> {}

\* The store is sqlite:/// and no connection sets PRAGMA foreign_keys, so the
\* db.ForeignKey('staff.id') columns are declared but not enforced at write time.
ForeignKeysEnforced == FALSE

ForeignKeyCols(t) ==
    CASE t \in {"engagement", "proposal"} -> {"team_leader_id"}
      [] t \in {"hours_log", "leave_record", "utilization"} -> {"staff_id"}
      [] OTHER -> {}

\* the exception the INSERT of obj into table t raises, "" for none;
\* staff are the Staff rows of the store at that moment
InsertError(t, rows, staff, obj) ==
    IF \E c \in DateCols(t) : obj[c].t \notin {"date", "none"}
      THEN "StatementError"
    ELSE IF \E c \in NotNullCols(t) : obj[c].t = "none"
      THEN "IntegrityError"
    ELSE IF \E r \in rows : r.id = obj.id
      THEN "IntegrityError"
    ELSE IF \E u \in UniqueCols(t) : \E r \in rows :
              \A c \in u : r[c] = obj[c] /\ obj[c].t # "none"
      THEN "IntegrityError"
    ELSE IF ForeignKeysEnforced
            /\ \E c \in ForeignKeyCols(t) :
                  obj[c].t # "none" /\ ~(\E st \in staff : st.id = obj[c])
      THEN "IntegrityError"
    ELSE ""

\* INSERT the pending objects of one table, in the order they were added: each
\* meets the rows of the table and the objects inserted before it; the first
\* that fails raises
InsertRows(t, rows, staff, objs) ==
    LET errs == [i \in 1..Len(objs) |->
                    InsertError(t, rows \cup { objs[j] : j \in 1..(i - 1) }, staff, objs[i])]
        bad == { i \in 1..Len(objs) : errs[i] # "" }
    IN  IF bad = {}
        THEN [err |-> "", rows |-> rows \cup { objs[i] : i \in 1..Len(objs) }]
        ELSE [err |-> errs[CHOOSE i \in bad : \A j \in bad : i <= j], rows |-> rows]

\* Session.flush(): the unit of work writes every pending object, the Staff
\* rows first; the first INSERT that fails raises and nothing of the flush is
\* kept.
Flush(store, new) ==
    LET staff == InsertRows("staff", store["staff"], store["staff"], new["staff"])
        res == [t \in Tables |-> InsertRows(t, store[t], staff.rows, new[t])]
        bad == { i \in 1..Len(TableOrder) : res[TableOrder[i]].err # "" }
    IN  IF bad = {}
        THEN [err |-> "", db |-> [t \in Tables |-> res[t].rows]]
        ELSE [err |-> res[TableOrder[CHOOSE i \in bad : \A j \in bad : i <= j]].err,
              db |-> store]

\* Session.add(obj): the object becomes pending; no SQL is emitted, so no
\* IntegrityError can be raised here.
SessionAddRaises(store, new, t, obj) == FALSE

---------------------------------------------------------------------------
\* transfer_data as a state machine

VARIABLES
    source,       \* the file old_db_path names
    committed,    \* the destination store as committed: what any reader sees
    db,           \* the destination store as the session's transaction sees it
    session_new,  \* the session's pending objects, per table, in add() order
    txn,          \* the session's transaction: none, open, committed, rolledback
    old_conn,     \* the connection to the legacy database, and its close() calls
    pc,           \* the statement transfer_data is at
    result,       \* what the call returned: none yet, True, False, or raised
    log,          \* the log records of the current call
    run,          \* calls of transfer_data so far
    pre,          \* committed, as it was when the current call started
    prev_result   \* what the call before the current one returned

vars ==
    << source, committed, db, session_new, txn, old_conn, pc, result, log, run,
       pre, prev_result >>

Msg(m, t, k) == [msg |-> m, tab |-> t, n |-> k]

NoConn == [state |-> "none", closes |-> 0]

\* the statements of the try block, in program order
Steps ==
    << "begin", "clearing", "staff", "flush", "engagement", "proposal",
       "non_billable", "hours_log", "leave_record", "utilization", "commit", "done" >>

StepIndex(p) == CHOOSE i \in 1..Len(Steps) : Steps[i] = p

\* A faulty variant of StepAfter: the flush of the Staff rows comes after the
\* Engagement rows are staged.
StepAfterLateFlush(p) ==
    CASE p = "staff" -> "engagement"
      [] p = "engagement" -> "flush"
      [] p = "flush" -> "proposal"
      [] OTHER -> Steps[StepIndex(p) + 1]

StepAfter(p) == Steps[StepIndex(p) + 1]

\* A faulty variant of PathExists: the check is skipped.
PathExistsUnchecked(src) == TRUE

\* os.path.exists(old_db_path)
PathExists(src) == src.kind # "absent"

\* sqlite3.connect(old_db_path) raises for a path it cannot open as a file; a
\* path that names nothing is created as an empty database.
ConnectRaises(src) == src.kind = "directory"

\* A faulty variant of Finally: the connection is left open.
FinallyLeak(conn) == conn

\* finally: old_conn.close()
Finally(conn) == [state |-> "closed", closes |-> conn.closes + 1]

\* A faulty variant of Rollback: what the transaction wrote stays.
RollbackKeeps(stored, seen) == seen

\* db.session.rollback(): the store after it, given what was committed and
\* what the transaction saw
Rollback(stored, seen) == stored

\* A faulty variant of CommitSession: nothing is written.
CommitNothing(stored, seen) == stored

\* db.session.commit(): the store after it
CommitSession(stored, seen) == seen

\* the except clause that catches an exception of this kind, by its log line
ExceptClause(kind) ==
    CASE kind = "sqlite3.OperationalError" -> "sqlite_operational_error"
      [] kind = "IntegrityError" -> "integrity_error"
      [] OTHER -> "unexpected_error"

\* except ...: log, roll back, return False; finally: close the connection
HandleException(kind, lg) ==
    /\ log' = Append(lg, Msg(ExceptClause(kind), "", 0))
    /\ committed' = Rollback(committed, db)
    /\ db' = Rollback(committed, db)
    /\ session_new' = NoObjects
    /\ txn' = "rolledback"
    /\ result' = "False"
    /\ old_conn' = Finally(old_conn)
    /\ pc' = "done"

\* the destination after the earlier migration of OldLegacy
OldDest ==
    Flush(NoRows,
          [t \in Tables |->
              LET rows == OldLegacy[t].rows
              IN  [i \in 1..Len(rows) |->
                      CASE t = "staff" -> Staff(rows[i])
                        [] t = "non_billable" -> NonBillable(rows[i])
                        [] t = "hours_log" -> HoursLog(rows[i])
                        [] t = "leave_record" -> LeaveRecord(rows[i])
                        [] t = "utilization" -> Utilization(rows[i])]]).db

\* create_database() leaves every table empty; an earlier migration leaves its rows
Init ==
    /\ source \in Sources
    /\ committed \in {NoRows, OldDest}
    /\ db = committed
    /\ session_new = NoObjects
    /\ txn = "none"
    /\ old_conn = NoConn
    /\ pc = "idle"
    /\ result = "none"
    /\ log = << >>
    /\ run = 0
    /\ pre = committed
    /\ prev_result = "none"

\* lines 123-132: the call starts, checks the path and connects
Start ==
    /\ pc \in {"idle", "done"}
    /\ run < MaxRuns
    /\ run' = run + 1
    /\ pre' = committed
    /\ prev_result' = result
    /\ txn' = "none"
    /\ session_new' = NoObjects
    /\ UNCHANGED << source, committed, db >>
    /\ IF ~PathExists(source)
       THEN /\ log' = << Msg("starting", "", 0), Msg("not_found", "", 0) >>
            /\ result' = "False"
            /\ old_conn' = NoConn
            /\ pc' = "done"
       ELSE IF ConnectRaises(source)
       THEN /\ log' = << Msg("starting", "", 0) >>
            /\ result' = "raised"
            /\ old_conn' = NoConn
            /\ pc' = "done"
       ELSE /\ log' = << Msg("starting", "", 0) >>
            /\ result' = "none"
            /\ old_conn' = [state |-> "open", closes |-> 0]
            /\ pc' = "begin"

\* A faulty variant of ClearTables: the Staff rows are not deleted.
ClearAllButStaff(store) == [NoRows EXCEPT !["staff"] = store["staff"]]

\* the seven Query.delete() calls: every row of every table goes
ClearTables(store) == NoRows

\* line 136: db.session.begin_nested()
Begin ==
    /\ pc = "begin"
    /\ txn' = "open"
    /\ pc' = StepAfter(pc)
    /\ UNCHANGED << source, committed, db, session_new, old_conn, result, log,
                    run, pre, prev_result >>

\* lines 139-146: the seven Query.delete() calls; the store may refuse a write
\* (locked, unreachable), which raises sqlalchemy's OperationalError
Clearing ==
    /\ pc = "clearing"
    /\ UNCHANGED << source, run, pre, prev_result >>
    /\ \E fault \in BOOLEAN : \E lg \in {Append(log, Msg("clearing", "", 0))} :
            IF fault THEN HandleException("sqlalchemy.OperationalError", lg)
            ELSE /\ db' = ClearTables(db)
                 /\ log' = lg
                 /\ pc' = StepAfter(pc)
                 /\ UNCHANGED << committed, session_new, txn, old_conn, result >>

\* "SELECT * FROM t" and the loop that builds and adds one object per row:
\* objs are the objects the rows give, in fetch order
Stage(t, objs) ==
    \E lg \in {Append(log, Msg("transferring", t, 0))} : \E added \in {objs} :
        IF ~source.tables[t].exists
        THEN HandleException("sqlite3.OperationalError", lg)
        ELSE IF AnyRaised(added) THEN HandleException("ValueError", lg)
        ELSE /\ session_new' = [session_new EXCEPT ![t] = added]
             /\ log' = Append(lg, Msg("transferred", t, Len(added)))
             /\ pc' = StepAfter(pc)
             /\ UNCHANGED << committed, db, txn, old_conn, result >>

Fetched(t) == source.tables[t].rows

\* lines 149-162
TransferStaff ==
    /\ pc = "staff"
    /\ UNCHANGED << source, run, pre, prev_result >>
    /\ Stage("staff", [i \in 1..Len(Fetched("staff")) |-> Staff(Fetched("staff")[i])])

\* line 165: db.session.flush()
FlushStaff ==
    /\ pc = "flush"
    /\ UNCHANGED << source, run, pre, prev_result >>
    /\ \E fault \in BOOLEAN : \E r \in {Flush(db, session_new)} :
            IF r.err # "" THEN HandleException(r.err, log)
            ELSE IF fault THEN HandleException("sqlalchemy.OperationalError", log)
            ELSE /\ db' = r.db
                 /\ session_new' = NoObjects
                 /\ pc' = StepAfter(pc)
                 /\ UNCHANGED << committed, txn, old_conn, result, log >>

\* lines 168-182: each row draws its two dates
TransferEngagement ==
    /\ pc = "engagement"
    /\ UNCHANGED << source, run, pre, prev_result >>
    /\ \E sd \in [1..Len(Fetched("engagement")) -> FakeOffsets] :
       \E ed \in [1..Len(Fetched("engagement")) -> FakeOffsets] :
          Stage("engagement",
                [i \in 1..Len(Fetched("engagement")) |->
                    Engagement(Fetched("engagement")[i], sd[i], ed[i])])

\* lines 185-198
TransferProposal ==
    /\ pc = "proposal"
    /\ UNCHANGED << source, run, pre, prev_result >>
    /\ \E dd \in [1..Len(Fetched("proposal")) -> FakeOffsets] :
          Stage("proposal",
                [i \in 1..Len(Fetched("proposal")) |->
                    Proposal(Fetched("proposal")[i], dd[i])])

\* lines 201-210
TransferNonBillable ==
    /\ pc = "non_billable"
    /\ UNCHANGED << source, run, pre, prev_result >>
    /\ Stage("non_billable",
             [i \in 1..Len(Fetched("non_billable")) |->
                 NonBillable(Fetched("non_billable")[i])])

\* lines 213-226
TransferHoursLog ==
    /\ pc = "hours_log"
    /\ UNCHANGED << source, run, pre, prev_result >>
    /\ Stage("hours_log",
             [i \in 1..Len(Fetched("hours_log")) |->
                 HoursLog(Fetched("hours_log")[i])])

\* lines 233-245, the loop over leave_record_data: a row whose object cannot
\* be built raises out of the loop; an object whose add() raised IntegrityError
\* would be skipped, after a rollback of the session that drops what was pending
LeaveLoop(rows) ==
    CHOOSE r \in
        { LET skips == { i \in 1..Len(rows) :
                           SessionAddRaises(db, session_new, "leave_record", objs[i]) }
              kept == { i \in 1..Len(rows) : \A j \in skips : j < i }
          IN  [raised |-> AnyRaised(objs),
               skipped |-> Cardinality(skips),
               added |-> Pick(objs, kept)] :
          objs \in { [i \in 1..Len(rows) |-> LeaveRecord(rows[i])] } } : TRUE

\* lines 229-246
TransferLeaveRecord ==
    /\ pc = "leave_record"
    /\ UNCHANGED << source, run, pre, prev_result >>
    /\ \E lg \in {Append(log, Msg("transferring", "leave_record", 0))} :
       \E r \in {LeaveLoop(Fetched("leave_record"))} :
           IF ~source.tables["leave_record"].exists
           THEN HandleException("sqlite3.OperationalError", lg)
           ELSE IF r.raised THEN HandleException("ValueError", lg)
           ELSE /\ session_new' =
                      IF r.skipped > 0
                      THEN [NoObjects EXCEPT !["leave_record"] = r.added]
                      ELSE [session_new EXCEPT !["leave_record"] = r.added]
                /\ db' = IF r.skipped > 0 THEN Rollback(committed, db) ELSE db
                /\ log' = (IF r.skipped > 0
                           THEN Append(lg, Msg("skipping_duplicate", "leave_record", r.skipped))
                           ELSE lg)
                          \o << Msg("transferred", "leave_record", Len(r.added)) >>
                /\ pc' = StepAfter(pc)
                /\ UNCHANGED << committed, txn, old_conn, result >>

\* lines 249-263
TransferUtilization ==
    /\ pc = "utilization"
    /\ UNCHANGED << source, run, pre, prev_result >>
    /\ Stage("utilization",
             [i \in 1..Len(Fetched("utilization")) |->
                 Utilization(Fetched("utilization")[i])])

\* lines 266-268 and 283: commit() flushes what is pending and commits;
\* then "return True", through the finally clause
Commit ==
    /\ pc = "commit"
    /\ UNCHANGED << source, run, pre, prev_result >>
    /\ \E fault \in BOOLEAN : \E r \in {Flush(db, session_new)} :
            IF r.err # "" THEN HandleException(r.err, log)
            ELSE IF fault THEN HandleException("sqlalchemy.OperationalError", log)
            ELSE /\ committed' = CommitSession(committed, r.db)
                 /\ db' = CommitSession(committed, r.db)
                 /\ session_new' = NoObjects
                 /\ txn' = "committed"
                 /\ log' = Append(log, Msg("completed", "", 0))
                 /\ result' = "True"
                 /\ old_conn' = Finally(old_conn)
                 /\ pc' = StepAfter(pc)

Next ==
    \/ Start
    \/ Begin
    \/ Clearing
    \/ TransferStaff
    \/ FlushStaff
    \/ TransferEngagement
    \/ TransferProposal
    \/ TransferNonBillable
    \/ TransferHoursLog
    \/ TransferLeaveRecord
    \/ TransferUtilization
    \/ Commit

Spec == Init /\ [][Next]_vars

\* The single thread runs each statement to completion, so a step that can be
\* taken is taken.
FairSpec == Spec /\ WF_vars(Next)

---------------------------------------------------------------------------
\* Properties

LogHas(m) == \E i \in 1..Len(log) : log[i].msg = m

FileOf(tables) == [kind |-> "file", tables |-> tables]

\* the position of the date column in a legacy row of t
DateColumn(t) == IF t = "hours_log" THEN 6 ELSE 3

DateTables == {"hours_log", "leave_record", "utilization"}

\* C1: a run that fails after its transaction was opened returns False and
\* leaves the committed contents of all seven tables as they were before the
\* run; nothing the open transaction wrote is visible before commit either.
C1_AllOrNothing ==
    /\ txn \in {"open", "rolledback"} => committed = pre
    /\ txn = "rolledback" => pc = "done" /\ result = "False" /\ db = pre

\* C1 witness: hours_log is missing; the run cleared the tables and flushed the
\* Staff rows of the source, then failed and left the earlier rows in place.
C1_Witness ==
    /\ pc = "done" /\ txn = "rolledback" /\ result = "False"
    /\ source = FileOf([Baseline EXCEPT !["hours_log"] = [exists |-> FALSE, rows |-> << >>]])
    /\ log[Len(log) - 1] = Msg("transferring", "hours_log", 0)
    /\ log[Len(log)] = Msg("sqlite_operational_error", "", 0)
    /\ pre = OldDest /\ committed = OldDest

\* C2 (as claimed): with two leave_record rows of the same (staff_id, date)
\* and nothing else wrong, the run commits and returns True, one of the two
\* rows is in the destination, a skip is logged, and the other tables' rows
\* are committed.
C2_DuplicateSkipped ==
    ( /\ pc = "done"
      /\ source = FileOf([Baseline EXCEPT !["leave_record"] =
                            [exists |-> TRUE, rows |-> << l1, l2 >>]])
      /\ ~LogHas("unexpected_error") )
    => /\ result = "True"
       /\ Cardinality(committed["leave_record"]) = 1
       /\ LogHas("skipping_duplicate")
       /\ \A t \in Tables \ {"leave_record"} :
             Cardinality(committed[t]) = Len(Fetched(t))

ZeroByte(src) == src = FileOf(NoTables)

\* C3 (amended): a path that names nothing fails at once, with no transaction
\* opened, no connection and nothing cleared; a 0-byte file fails too and
\* leaves the committed store as it was, but only after the transaction was
\* opened and the Clearing step ran, by a rollback.
C3_MissingOrEmptySource ==
    /\ (source.kind = "absent" /\ run > 0) =>
          /\ pc = "done" /\ result = "False"
          /\ txn = "none" /\ old_conn = NoConn
          /\ log = << Msg("starting", "", 0), Msg("not_found", "", 0) >>
          /\ committed = pre /\ db = pre /\ session_new = NoObjects
    /\ (ZeroByte(source) /\ pc = "done") =>
          /\ result = "False" /\ committed = pre
          /\ txn = "rolledback" /\ LogHas("clearing")
          /\ ~LogHas("transferred")

\* C3 witness: the path names nothing and the call has returned.
C3_Witness ==
    /\ source.kind = "absent" /\ pc = "done" /\ run = 1
    /\ result = "False" /\ txn = "none" /\ committed = OldDest

\* C3 (as claimed): a path that names nothing or a 0-byte file fails with no
\* transaction opened and no step from Clearing on executed (the store itself
\* working).
C3_Original ==
    ( /\ source.kind = "absent" \/ ZeroByte(source)
      /\ pc = "done"
      /\ ~LogHas("unexpected_error") ) =>
        /\ result = "False"
        /\ txn = "none"
        /\ ~LogHas("clearing")

\* the destination row d is the legacy Staff row r, coerced
StaffExpected(r, d) ==
    /\ d.id = r[1] /\ d.name = r[2] /\ d.email = r[3]
    /\ d.leave_days_remaining.t = "float"
    /\ d.leave_days_remaining = PyFloat(r[4])
    /\ d.is_team_leader.t = "bool" /\ d.is_team_leader = PyBool(r[5])
    /\ d.receive_notifications.t = "bool" /\ d.receive_notifications = PyBool(r[6])

NewStaffOnly ==
    /\ Cardinality(committed["staff"]) = Len(Fetched("staff"))
    /\ \A i \in 1..Len(Fetched("staff")) :
          /\ \E d \in committed["staff"] : StaffExpected(Fetched("staff")[i], d)
          /\ Cardinality({ d \in committed["staff"] : d.id = Fetched("staff")[i][1] }) = 1

\* C4: after a run that returned True, each legacy Staff row has exactly one
\* destination row, with its id, name and email and the coerced values, and the
\* destination holds no other Staff row; at every moment the committed Staff
\* table is either the one from before the run or the new one, never a mixture.
C4_StaffFullReplace ==
    /\ (pc = "done" /\ result = "True") => NewStaffOnly
    /\ committed["staff"] = pre["staff"] \/ NewStaffOnly

\* C4 witness: the rows of an earlier migration were replaced by the two rows
\* of the source, "2.5" now 2.5, "0" now True and None now False.
C4_Witness ==
    /\ pc = "done" /\ result = "True" /\ pre = OldDest
    /\ Fetched("staff") = << sA, sB >>
    /\ committed["staff"] \cap pre["staff"] = {}
    /\ \E d \in committed["staff"] :
          /\ d.id = I(2) /\ d.leave_days_remaining = Fl(25)
          /\ d.is_team_leader = Bo(TRUE) /\ d.receive_notifications = Bo(FALSE)

PlainTables == {"staff", "non_billable", "hours_log", "utilization"}

\* C5: a run that follows a successful run on the same source leaves Staff,
\* NonBillable, HoursLog and Utilization as the first run left them, and meets
\* no key conflict with them: it succeeds too unless the store itself fails.
C5_Idempotent ==
    (pc = "done" /\ run >= 2 /\ prev_result = "True") =>
        /\ \A t \in PlainTables : committed[t] = pre[t]
        /\ ~LogHas("integrity_error")
        /\ result = "True" \/ LogHas("unexpected_error")

\* C5 witness: the second of two successful runs.
C5_Witness ==
    /\ pc = "done" /\ run = 2 /\ prev_result = "True" /\ result = "True"
    /\ \A t \in PlainTables : committed[t] # {} /\ committed[t] = pre[t]

\* C6: when the call has returned, the legacy connection, if it was opened, is
\* closed and was closed once; until then it is open.
C6_ConnectionReleased ==
    /\ pc \notin {"idle", "done"} => old_conn = [state |-> "open", closes |-> 0]
    /\ (pc = "done" /\ source.kind = "file") =>
          old_conn = [state |-> "closed", closes |-> 1]
    /\ (pc = "done" /\ source.kind # "file") => old_conn = NoConn

\* C6 witness: an exception path, the flush of two Staff rows with one email.
C6_Witness ==
    /\ pc = "done" /\ result = "False" /\ LogHas("integrity_error")
    /\ Fetched("staff") = << sA, sC >>
    /\ old_conn = [state |-> "closed", closes |-> 1]

\* the source holds, in a table with a date column, text strptime rejects
HasRejectedDate ==
    \E t \in DateTables : \E i \in 1..Len(Fetched(t)) :
        LET v == Fetched(t)[i][DateColumn(t)]
        IN  v.t = "str" /\ Strptime(v.s).t = "raise"

\* C7 (amended): a date string that strptime('%Y-%m-%d') rejects (the fields
\* are not a 4-digit year, a month and a day, or the date does not exist) makes
\* the run fail and roll back, and is never skipped; a month and day without
\* their leading zero are accepted ("2024-2-3" is stored as 3 February 2024);
\* a value that is already a date passes through convert_date unchanged.
C7_BadDateFails ==
    /\ (pc = "done" /\ source.kind = "file" /\ HasRejectedDate) =>
          /\ result = "False" /\ txn = "rolledback" /\ committed = pre
          /\ ~LogHas("skipping_duplicate") /\ ~LogHas("completed")
    /\ ( /\ pc = "done" /\ ~LogHas("unexpected_error")
         /\ source = FileOf([Baseline EXCEPT !["hours_log"] =
                               [exists |-> TRUE, rows |-> << h3 >>]]) )
       => /\ result = "True"
          /\ \E d \in committed["hours_log"] : d.id = h3[1] /\ d.date = Dt(2024, 2, 3)
    /\ \A v \in {Dt(2024, 2, 29), Dt(2023, 12, 31), fake_date(1)} : convert_date(v) = v

\* C7 witness: "2024-02-30" in hours_log; the run failed at that step.
C7_Witness ==
    /\ pc = "done" /\ result = "False" /\ txn = "rolledback"
    /\ Fetched("hours_log") = << h2 >>
    /\ log[Len(log) - 1] = Msg("transferring", "hours_log", 0)
    /\ log[Len(log)] = Msg("unexpected_error", "", 0)
    /\ pre = OldDest /\ committed = OldDest

\* text that is exactly YYYY-MM-DD and names a date that exists
StrictYmd(cs) ==
    /\ Len(cs) = 10
    /\ cs[5] = "-" /\ cs[8] = "-"
    /\ \A i \in (1..10) \ {5, 8} : IsDigit(cs[i])
    /\ Strptime(cs).t = "date"

\* C7 (as claimed): a date string that is not a valid YYYY-MM-DD date makes
\* the run fail.
C7_Original ==
    ( /\ pc = "done" /\ source.kind = "file"
      /\ \E t \in DateTables : \E i \in 1..Len(Fetched(t)) :
            LET v == Fetched(t)[i][DateColumn(t)]
            IN  v.t = "str" /\ ~StrictYmd(v.s) )
    => result = "False"

\* the steps the log shows, in the order they were logged
StepLog ==
    LET marks == SelectSeq(log, LAMBDA e : e.msg \in {"clearing", "transferring"})
    IN  [i \in 1..Len(marks) |->
            IF marks[i].msg = "clearing" THEN "clearing" ELSE marks[i].tab]

StepOrder == << "clearing" >> \o TableOrder

\* C8: the steps run in the fixed order, none skipped or repeated; rows are
\* staged only after the tables were cleared; a row of a table that depends on
\* Staff is staged only when every Staff row has been flushed to the store.
C8_DependencyOrder ==
    /\ Len(StepLog) <= Len(StepOrder)
    /\ \A i \in 1..Len(StepLog) : StepLog[i] = StepOrder[i]
    /\ result = "True" => StepLog = StepOrder
    /\ \A t \in Tables :
          session_new[t] # << >> =>
             /\ LogHas("clearing")
             /\ \E i \in 1..Len(StepLog) : StepLog[i] = t
    /\ \A t \in Tables \ {"staff", "non_billable"} :
          session_new[t] # << >> =>
             /\ session_new["staff"] = << >>
             /\ Cardinality(db["staff"]) = Len(Fetched("staff"))
             /\ \A i \in 1..Len(Fetched("staff")) :
                   \E d \in db["staff"] : d.id = Fetched("staff")[i][1]

\* C8 witness: an Engagement row is staged, the two Staff rows are in the
\* store and none is pending.
C8_Witness ==
    /\ pc = "proposal"
    /\ Len(session_new["engagement"]) = 1
    /\ Cardinality(db["staff"]) = 2 /\ session_new["staff"] = << >>
    /\ StepLog = << "clearing", "staff", "engagement" >>

\* C9 (as claimed): in a committed destination every team_leader_id and
\* staff_id that is set names a Staff row of the destination, and no two Staff
\* rows share an email.
C9_ReferentialIntegrity ==
    txn = "committed" =>
        /\ \A t \in Tables : \A c \in ForeignKeyCols(t) : \A r \in committed[t] :
              r[c].t # "none" => \E st \in committed["staff"] : st.id = r[c]
        /\ \A a \in committed["staff"] : \A b \in committed["staff"] :
              a.email = b.email => a = b

C10_Outcome ==
    /\ pc = "done" => result \in {"True", "False", "raised"}
    /\ pc = "done" => txn # "open"
    /\ result = "True" <=> txn = "committed"
    /\ result = "True" =>
          /\ pc = "done" /\ committed = db
          /\ \A t \in Tables :
                /\ Cardinality(committed[t]) = Len(Fetched(t))
                /\ \A i \in 1..Len(Fetched(t)) :
                      \E d \in committed[t] : d.id = Fetched(t)[i][1]
    /\ result \in {"False", "raised"} =>
          /\ pc = "done" /\ committed = pre
          /\ txn \in {"none", "rolledback"}

\* C10: every run ends; it returns True exactly when the transaction was
\* committed, and then every row of every legacy table is in the destination;
\* when it returns False nothing of the run is committed, the transaction
\* having been rolled back or never opened; no run ends with it open.
C10_ResultMatchesOutcome ==
    /\ []C10_Outcome
    /\ (pc \notin {"idle", "done"}) ~> (pc = "done")

\* C10 witness: a run that failed (the store refused a write) and returned
\* False, then a run on the same source that committed and returned True.
C10_Witness ==
    /\ pc = "done" /\ run = 2
    /\ prev_result = "False" /\ result = "True" /\ txn = "committed"
    /\ source = FileOf(Baseline)

====
